---- MODULE Spec2Model ----
(***************************************************************************)
(* A model of trainers/sgvb.py: class SGVBWords, the SGVB trainer of a     *)
(* sequence VAE.  Tensors are finite functions over small integers; the    *)
(* collaborators the class only calls (the recognition and the generative  *)
(* model, the automatic differentiation, the update rule) are small        *)
(* deterministic stand-ins, each named where it is used.                   *)
(*                                                                         *)
(* Specifications:                                                         *)
(*   SpecCut     cut_off applied to token matrices                         *)
(*   SpecElbo    the outputs of the functions elbo_fn and optimiser build  *)
(*   SpecClip    the gradient clipping stage of optimiser                  *)
(*   Spec        one run: optimiser steps, lookups, compiled functions     *)
(*   SpecResume  two runs: optimiser steps, saving and restoring           *)
(***************************************************************************)
EXTENDS Integers, Sequences, FiniteSets, TLC

VARIABLES
    cut,    \* SpecCut: a call of cut_off, its input and results
    elb,    \* SpecElbo: a call of a compiled elbo function
    clip,   \* SpecClip: the gradients before and after lines 191-192
    store,  \* per run: the values of the shared variables, by name
    built,  \* per run: None, or Some(the optimiser built in the run)
    saved,  \* None, or Some(the saved update state)
    ret,    \* per run: what the last completed call returned
    rng,    \* per run: draws taken from the models' random stream
    steps,  \* per run: optimiser steps taken
    since   \* per run: the batches stepped on since the save / the restore

trainer == <<store, built, saved, ret, rng, steps, since>>
vars == <<cut, elb, clip, store, built, saved, ret, rng, steps, since>>

\* an optional argument: None, or Some(v)
None == <<>>
Some(v) == <<v>>
The(o) == o[1]

\* ------------------------------------------------------------------ sizes
\* vocab_size (V): the embedding table has V rows, token ids are 0..V-1
V == 2
\* max_length (L): columns of a token matrix
MaxLen == 3
\* N: rows (sentences) of a batch
NRows == 2
\* num_samples (S) ranges over 1 .. MaxSamples
MaxSamples == 2
\* side length of the parameter tensors of the two models
Dim == 2
\* embedding_dim (E)
E == 2
\* optimiser steps taken in one run
MaxSteps == 2
\* optimiser steps taken in the resumed run
MaxStepsResumed == 1
\* distinct batches
MaxBatch == 2
\* draws from the random stream in one run
MaxDraws == 1

PAD == 0 - 1
Tokens == PAD .. (V - 1)

\* ---------------------------------------------------------------- cut_off
\* T.cast(., 'int32'): the operands are PAD and token ids, all inside the
\* int32 range (which is also the range of TLC's integers), where the cast
\* keeps the value
Int32(v) == v

\* T.switch(cond, a, b), elementwise
switch(cond, a, b) == IF cond THEN a ELSE b

\* the step with every row looking at the first row's previous output
step_row1(x_l, x_lm1, eos_ind) ==
    [n \in DOMAIN x_l |->
        LET a == switch(x_lm1[1] = eos_ind, PAD, x_l[n])
            b == switch(x_lm1[1] = PAD, PAD, a)
        IN  Int32(b)]

\* step(x_l, x_lm1) of cut_off: x_l is one column (a vector over the rows),
\* x_lm1 the previous OUTPUT column
step(x_l, x_lm1, eos_ind) ==
    [n \in DOMAIN x_l |->
        LET a == switch(x_lm1[n] = eos_ind, PAD, x_l[n])
            b == switch(x_lm1[n] = PAD, PAD, a)
        IN  Int32(b)]

\* theano.scan(step, sequences=seqs, outputs_info=prev): the fold that hands
\* each step the previous step's output
RECURSIVE scan(_, _, _)
scan(seqs, prev, eos_ind) ==
    IF seqs = <<>> THEN <<>>
    ELSE LET o == step(Head(seqs), prev, eos_ind)
         IN  <<o>> \o scan(Tail(seqs), o, eos_ind)

\* x.T of an N x L matrix held as a sequence of rows (N >= 1)
Transpose(m) ==
    IF m = <<>> THEN <<>>
    ELSE [l \in 1 .. Len(m[1]) |-> [n \in 1 .. Len(m) |-> m[n][l]]]

\* T.zeros((n,), 'int32')
zeros_int(n) == [i \in 1 .. n |-> 0]

\* the scan that feeds each step the previous INPUT column instead
RECURSIVE scan_raw(_, _, _)
scan_raw(seqs, prev, eos_ind) ==
    IF seqs = <<>> THEN <<>>
    ELSE <<step(Head(seqs), prev, eos_ind)>> \o scan_raw(Tail(seqs), Head(seqs), eos_ind)

cut_off_raw(x, eos_ind) ==
    LET cols == Transpose(x)
    IN  IF cols = <<>> THEN x
        ELSE Transpose(scan_raw(cols, zeros_int(Len(x)), eos_ind))

cut_off(x, eos_ind) ==
    LET cols == Transpose(x)
    IN  IF cols = <<>> THEN x
        ELSE Transpose(scan(cols, zeros_int(Len(x)), eos_ind))

\* Token matrices of the check: every row content in one row, the other rows
\* constant (cut_off works on each row by itself, so the other rows only
\* have to differ from run to run).
TokenRows == [1 .. MaxLen -> Tokens]
ConstRow(c) == [l \in 1 .. MaxLen |-> c]
TokenMatrices ==
    { [r \in 1 .. NRows |-> IF r = g THEN row ELSE ConstRow(c[r])] :
        g \in 1 .. NRows, row \in TokenRows, c \in [1 .. NRows -> Tokens] }

CutIdle == [pc |-> "idle"]

\* the trainer's variables in the specifications that do not run it
TrainerIdle ==
    /\ store = <<>> /\ built = <<>> /\ saved = <<>> /\ ret = <<>>
    /\ rng = <<>> /\ steps = <<>> /\ since = <<>>

ElbIdle == [pc |-> "idle"]
ClipIdle == [pc |-> "idle"]

InitCut ==
    /\ \E x \in TokenMatrices, e \in 0 .. (V - 1) :
            cut = [pc |-> "input", x |-> x, eos_ind |-> e]
    /\ elb = ElbIdle
    /\ clip = ClipIdle
    /\ TrainerIdle

\* a call cut_off(x)
CallCutOff ==
    /\ cut.pc = "input"
    /\ cut' = [pc |-> "cut", x |-> cut.x, eos_ind |-> cut.eos_ind,
               out |-> cut_off(cut.x, cut.eos_ind)]
    /\ UNCHANGED <<elb, clip, trainer>>

\* a second call, on the first call's result
CallCutOffAgain ==
    /\ cut.pc = "cut"
    /\ cut' = [pc |-> "recut", x |-> cut.x, eos_ind |-> cut.eos_ind,
               out |-> cut.out, out2 |-> cut_off(cut.out, cut.eos_ind)]
    /\ UNCHANGED <<elb, clip, trainer>>

NextCut == CallCutOff \/ CallCutOffAgain

SpecCut == InitCut /\ [][NextCut]_vars

\* ---------------------------------------------------------- symbolic_elbo
\* A tensor is a function from index tuples to numbers.  T.sum(t):
RECURSIVE SumOver(_, _)
SumOver(t, D) ==
    IF D = {} THEN 0
    ELSE LET d == CHOOSE d \in D : TRUE IN t[d] + SumOver(t, D \ {d})

T_sum(t) == SumOver(t, DOMAIN t)

\* The real-valued outputs are held exactly, as whole numbers of the unit
\* 1 / (2 * num_samples): Unit(S) is the number 1.
Unit(S) == 2 * S

\* T.sum(T.switch(T.lt(x, 0), 0, 1)) of a token matrix (a sequence of rows)
valid_token_count(x) ==
    T_sum([i \in { <<n, l>> : n \in DOMAIN x, l \in 1 .. MaxLen } |->
              switch(x[i[1]][i[2]] < 0, 0, 1)])

\* the mode test taken in the other order: beta first, optimal_ratio second
symbolic_elbo_beta_first(x, log_p_x, kl, num_samples, optimal_ratio, beta) ==
    LET S == num_samples
        rec == T_sum([i \in DOMAIN log_p_x |-> (Unit(S) \div S) * log_p_x[i]])
        kl_sum == Unit(S) * T_sum(kl)
        elbo == IF beta # None
                THEN rec - T_sum([i \in DOMAIN kl |-> Unit(S) * The(beta) * kl[i]])
                ELSE IF optimal_ratio THEN rec - (kl_sum \div 2) ELSE rec - kl_sum
    IN  [elbo |-> elbo, kl |-> kl_sum,
         pp |-> [neg_exponent |-> rec - kl_sum, tokens |-> valid_token_count(x)]]

\* symbolic_elbo from the point where the collaborators have answered:
\* log_p_x (S x N) is generative_model.log_p_x(...), kl (N x 1) is the kl of
\* recognition_model.get_samples_and_kl_std_gaussian(...).  beta is None or
\* a number.  pp = exp(-neg_exponent / tokens) is held by its two operands.
symbolic_elbo(x, log_p_x, kl, num_samples, optimal_ratio, beta) ==
    LET S == num_samples
        \* T.sum((1. / num_samples) * log_p_x)
        rec == T_sum([i \in DOMAIN log_p_x |-> (Unit(S) \div S) * log_p_x[i]])
        kl_sum == Unit(S) * T_sum(kl)
        elbo == IF optimal_ratio
                THEN rec - (kl_sum \div 2)
                ELSE IF beta = None
                     THEN rec - kl_sum
                     ELSE rec - T_sum([i \in DOMAIN kl |-> Unit(S) * The(beta) * kl[i]])
    IN  [elbo |-> elbo, kl |-> kl_sum,
         pp |-> [neg_exponent |-> rec - kl_sum, tokens |-> valid_token_count(x)]]

\* the outputs of the function elbo_fn(num_samples) builds, called on a batch
elbo_fn_outputs(x, log_p_x, kl, num_samples) ==
    symbolic_elbo(x, log_p_x, kl, num_samples, FALSE, None)

\* the outputs of the function optimiser(num_samples, .., optimal_ratio, ..)
\* builds: beta is always an input of that function
optimiser_outputs(x, log_p_x, kl, num_samples, optimal_ratio, beta) ==
    symbolic_elbo(x, log_p_x, kl, num_samples, optimal_ratio, beta)

LogPVals == {0 - 3, 0 - 1}
KlVals == {0, 2}
BetaVals == {0, 1, 2}
ElboBatches == { [r \in 1 .. NRows |-> ConstRow(c)] : c \in {PAD, 0} }

InitElbo ==
    /\ \E S \in 1 .. MaxSamples, x \in ElboBatches :
       \E lp \in [(1 .. S) \X (1 .. NRows) -> LogPVals],
          kl \in [(1 .. NRows) \X {1} -> KlVals] :
            elb = [pc |-> "input", x |-> x, num_samples |-> S,
                   log_p_x |-> lp, kl |-> kl]
    /\ cut = CutIdle
    /\ clip = ClipIdle
    /\ TrainerIdle

\* the function built by elbo_fn, called on (x, x_m)
CallElboFn ==
    /\ elb.pc = "input"
    /\ elb' = [elb EXCEPT !.pc = "elbo_fn"] @@
              [optimal_ratio |-> FALSE, beta |-> None,
               out |-> elbo_fn_outputs(elb.x, elb.log_p_x, elb.kl, elb.num_samples)]
    /\ UNCHANGED <<cut, clip, trainer>>

\* the outputs of the function built by optimiser, called on
\* (x, x_m, beta, drop_mask)
CallOptimiserOutputs ==
    /\ elb.pc = "input"
    /\ \E optimal_ratio \in BOOLEAN, beta \in BetaVals :
        elb' = [elb EXCEPT !.pc = "optimiser"] @@
               [optimal_ratio |-> optimal_ratio, beta |-> Some(beta),
                out |-> optimiser_outputs(elb.x, elb.log_p_x, elb.kl,
                                          elb.num_samples, optimal_ratio, Some(beta))]
    /\ UNCHANGED <<cut, clip, trainer>>

NextElbo == CallElboFn \/ CallOptimiserOutputs

SpecElbo == InitElbo /\ [][NextElbo]_vars

\* ------------------------------------------------------ gradient clipping
\* A real number of a gradient is held exactly as v * c / sqrt(n2), three
\* integers; Real(v) is the integer v.
Real(v) == [v |-> v, c |-> 1, n2 |-> 1]

\* g.ndim
ndim(t) == Len(CHOOSE i \in DOMAIN t : TRUE)

\* lasagne.updates.norm_constraint(tensor_var, max_norm) with norm_axes=None,
\* as line 192 calls it.  The norms are taken over axis 0 of a matrix and
\* over axes 1.. of a tensor of rank 3 to 5, one norm per remaining index:
\* norm_key(i) names the norm an entry belongs to.
norm_key(t, i) == IF ndim(t) = 2 THEN <<i[2]>> ELSE <<i[1]>>

\* T.sum(T.sqr(tensor_var), axis=sum_over, keepdims=True): the squared
\* norms, by key
sqr_norms(t) ==
    [key \in { norm_key(t, i) : i \in DOMAIN t } |->
        T_sum([j \in { k \in DOMAIN t : norm_key(t, k) = key } |->
                  t[j].v * t[j].v])]

\* one norm over the whole tensor
norm_constraint_whole(t, max_norm) ==
    LET n2 == T_sum([j \in DOMAIN t |-> t[j].v * t[j].v])
    IN  [i \in DOMAIN t |->
            IF n2 > max_norm * max_norm
            THEN [v |-> t[i].v, c |-> max_norm, n2 |-> n2]
            ELSE t[i]]

\* target_norms = T.clip(norms, 0, max_norm);
\* tensor_var * (target_norms / (epsilon + norms)).  epsilon = 1e-7 only
\* keeps the division defined: it is left out, so a norm within max_norm
\* gives the factor 1 (and a zero norm leaves the zeros they are).
norm_constraint(t, max_norm) ==
    LET norms == sqr_norms(t)
    IN  [i \in DOMAIN t |->
            IF norms[norm_key(t, i)] > max_norm * max_norm
            THEN [v |-> t[i].v, c |-> max_norm, n2 |-> norms[norm_key(t, i)]]
            ELSE t[i]]

\* lines 191-192: the list of gradients handed to the update rule
constrain_grads(grads, grad_norm_constraint) ==
    IF grad_norm_constraint # None
    THEN [k \in DOMAIN grads |->
            IF ndim(grads[k]) > 1
            THEN norm_constraint(grads[k], The(grad_norm_constraint))
            ELSE grads[k]]
    ELSE grads

\* index sets of the tensors of rank 1, 2 and 3
Shape(r) == CASE r = 1 -> { <<a>> : a \in 1 .. Dim }
              [] r = 2 -> (1 .. Dim) \X (1 .. Dim)
              [] r = 3 -> (1 .. Dim) \X (1 .. Dim) \X {1}

GradVals == {0 - 4, 0, 3}
GradNormVals == {3, 5}
GradNormArgs == {None} \cup { Some(c) : c \in GradNormVals }

InitClip ==
    /\ \E r \in 1 .. 3, gnc \in GradNormArgs :
       \E g \in [Shape(r) -> GradVals] :
            clip = [pc |-> "grads", grad_norm_constraint |-> gnc,
                    grads |-> << [i \in Shape(r) |-> Real(g[i])] >>]
    /\ cut = CutIdle
    /\ elb = ElbIdle
    /\ TrainerIdle

\* lines 191-195 of optimiser: the gradients become the update rule's
\* loss_or_grads
ConstrainGrads ==
    /\ clip.pc = "grads"
    /\ clip' = [clip EXCEPT !.pc = "passed"] @@
               [loss_or_grads |->
                   constrain_grads(clip.grads, clip.grad_norm_constraint)]
    /\ UNCHANGED <<cut, elb, trainer>>

NextClip == ConstrainGrads

SpecClip == InitClip /\ [][NextClip]_vars

\* ------------------------------------------------- the trainer's state
\* params of line 188: generative_model.get_params() +
\* recognition_model.get_params() + [self.all_embeddings], in this order.
\* The generative model stands with one tensor of rank 3, the recognition
\* model with one vector.
ParamKeys == <<"gen", "rec", "emb">>
ParamSet == { ParamKeys[k] : k \in DOMAIN ParamKeys }

ParamShape(key) ==
    CASE key = "gen" -> Shape(3)
      [] key = "rec" -> Shape(1)
      [] key = "emb" -> (1 .. V) \X (1 .. E)

\* line 36: theano.shared(np.random.normal(0., 0.1, (vocab_size,
\* embedding_dim))), and the models' own initial parameters: some values,
\* other ones in every run (run 1, run 2), none of them zero
InitStore(run) ==
    [key \in ParamSet |->
        [i \in ParamShape(key) |-> 4 * run + ((i[1] + 2 * i[Len(i)]) % 3)]]

\* the value of a shared variable, read when a compiled function runs
SharedValueAtInit(st, run, key) == InitStore(run)[key]

SharedValue(st, run, key) == st[key]

\* ---------------------------------------------------------------- embedder
NumRows(t) == Cardinality({ i[1] : i \in DOMAIN t })
NumCols(t) == Cardinality({ i[2] : i \in DOMAIN t })

\* indexing without the appended row
embedder_no_pad(x, all_embeddings) ==
    LET R == NumRows(all_embeddings)
        at(k) == IF k < 0 THEN k + R ELSE k
    IN  IF \E l \in DOMAIN x : at(x[l]) \notin 0 .. (R - 1)
        THEN [ok |-> FALSE, rows |-> <<>>]
        ELSE [ok |-> TRUE,
              rows |-> [l \in DOMAIN x |->
                          [j \in 1 .. NumCols(all_embeddings) |->
                              all_embeddings[<<at(x[l]) + 1, j>>]]]]

\* embedder(x, all_embeddings): T.concatenate([all_embeddings,
\* T.zeros((1, embedding_dim))], axis=0)[x].  An index k < 0 counts from the
\* end of the concatenated table (k + its row count); an index outside the
\* concatenated table raises IndexError (ok = FALSE) for the whole call.
embedder(x, all_embeddings) ==
    LET R == NumRows(all_embeddings) + 1
        cat == [i \in (1 .. R) \X (1 .. E) |->
                   IF i[1] < R THEN all_embeddings[i] ELSE 0]
        at(k) == IF k < 0 THEN k + R ELSE k
    IN  IF \E l \in DOMAIN x : at(x[l]) \notin 0 .. (R - 1)
        THEN [ok |-> FALSE, rows |-> <<>>]
        ELSE [ok |-> TRUE,
              rows |-> [l \in DOMAIN x |->
                          [j \in 1 .. E |-> cat[<<at(x[l]) + 1, j>>]]]]

\* ------------------------------------------------------------- optimiser
\* A batch (x, x_m, beta, drop_mask) is named by a number b.
Batches == 1 .. MaxBatch
BatchX(b) == [r \in 1 .. NRows |-> ConstRow((b % (V + 1)) - 1)]
BatchBeta(b) == b % 3

\* what the models see of the parameters: one number
Digest(st, run) ==
    T_sum([key \in ParamSet |-> T_sum(SharedValue(st, run, key))])

\* stand-in for generative_model.log_p_x (S x N, line 133)
log_p_x_of(st, run, b, S) ==
    LET d == Digest(st, run)
    IN  [i \in (1 .. S) \X (1 .. NRows) |-> 0 - ((d + b + i[1] + 2 * i[2]) % 3)]

\* stand-in for the kl of get_samples_and_kl_std_gaussian (N x 1, line 125)
kl_of(st, run, b) ==
    LET d == Digest(st, run)
    IN  [i \in (1 .. NRows) \X {1} |-> 2 * ((d + b + i[1]) % 2)]

\* stand-in for T.grad(-elbo, params, disconnected_inputs='ignore'), line
\* 189: one tensor per parameter, of the parameter's shape
grads_of(st, run, b) ==
    [k \in DOMAIN ParamKeys |->
        [i \in ParamShape(ParamKeys[k]) |->
            Real(CASE (b + k + i[1] + 2 * i[Len(i)]) % 3 = 0 -> 0
                   [] (b + k + i[1] + 2 * i[Len(i)]) % 3 = 1 -> 3
                   [] OTHER -> 0 - 4)]]

\* The update rule is the caller's (update, update_kwargs).  Two rules stand
\* for it, with the entries and the entry order of lasagne's sgd and
\* momentum; they step by the sign of the gradient, which the clipping
\* factor c / sqrt(n2) > 0 keeps.
Rules == {"sgd", "momentum"}
Acc(key) == "v_" \o key
Sgn(e) == IF e.v > 0 THEN 1 ELSE IF e.v < 0 THEN 0 - 1 ELSE 0

\* the keys of the OrderedDict update(**update_kwargs) returns, in order
update_keys(rule) ==
    IF rule = "sgd" THEN ParamKeys
    ELSE ParamKeys \o [k \in DOMAIN ParamKeys |-> Acc(ParamKeys[k])]

\* the shared variables the rule creates: zeros of the parameters' shapes
fresh_accumulators(rule) ==
    IF rule = "sgd" THEN <<>>
    ELSE [a \in { Acc(key) : key \in ParamSet } |->
            [i \in ParamShape(CHOOSE key \in ParamSet : Acc(key) = a) |-> 0]]

\* the new value the rule's OrderedDict gives each of its keys: sgd gives
\* param - grad; momentum gives velocity - grad to the velocity and
\* param + the new velocity to the param
update_rule(rule, st, grads) ==
    LET g == [key \in ParamSet |->
                grads[CHOOSE k \in DOMAIN ParamKeys : ParamKeys[k] = key]]
        vel == [key \in ParamSet |->
                  [i \in DOMAIN st[key] |-> st[Acc(key)][i] - Sgn(g[key][i])]]
    IN  IF rule = "sgd"
        THEN [key \in ParamSet |->
                [i \in DOMAIN st[key] |-> st[key][i] - Sgn(g[key][i])]]
        ELSE [key \in ParamSet |->
                [i \in DOMAIN st[key] |-> st[key][i] + vel[key][i]]]
             @@ [a \in { Acc(key) : key \in ParamSet } |->
                    vel[CHOOSE key \in ParamSet : Acc(key) = a]]

SeqMin(a, b) == IF a < b THEN a ELSE b

\* a restore that leaves the fresh entries as they are
restore_nothing(st, keys, saved_update) == st

\* lines 199-201: for u, v in zip(updates, saved_update.keys()):
\* u.set_value(v.get_value()).  zip stops at the shorter of the two; the
\* n-th fresh entry takes the n-th saved value, whatever entry that was.
restore(st, keys, saved_update) ==
    LET n == SeqMin(Len(keys), Len(saved_update))
    IN  [key \in DOMAIN st |->
            IF \E k \in 1 .. n : keys[k] = key
            THEN saved_update[CHOOSE k \in 1 .. n : keys[k] = key].val
            ELSE st[key]]

\* ------------------------------------------------------ the trainer's calls
Runs == {1, 2}

InitTrainer ==
    /\ store = [run \in Runs |-> InitStore(run)]
    /\ built = [run \in Runs |-> None]
    /\ saved = None
    /\ ret = [run \in Runs |-> [op |-> "none"]]
    /\ rng = [run \in Runs |-> 0]
    /\ steps = [run \in Runs |-> 0]
    /\ since = [run \in Runs |-> <<>>]
    /\ cut = CutIdle
    /\ elb = ElbIdle
    /\ clip = ClipIdle

Others == <<cut, elb, clip>>

\* optimiser(num_samples, grad_norm_constraint, update, update_kwargs,
\* optimal_ratio, saved_update): lines 186-210, once per run.  saved_update
\* is None or Some(a saved state).  The construction always returns.
Optimiser(run, gnc, rule, optimal_ratio, saved_update) ==
    /\ built[run] = None
    /\ LET keys == update_keys(rule)
           st0 == IF rule = "sgd" THEN store[run]
                  ELSE store[run] @@ fresh_accumulators(rule)
           st1 == IF saved_update = None THEN st0
                  ELSE restore(st0, keys, The(saved_update).entries)
       IN  /\ store' = [store EXCEPT ![run] = st1]
           /\ built' = [built EXCEPT ![run] = Some(
                 [grad_norm_constraint |-> gnc, rule |-> rule,
                  optimal_ratio |-> optimal_ratio, updates |-> keys,
                  saved_update |->
                    IF saved_update = None THEN None
                    ELSE Some([by |-> The(saved_update).by,
                               keys |-> [k \in DOMAIN The(saved_update).entries |->
                                            The(saved_update).entries[k].key]])])]
    /\ ret' = [ret EXCEPT ![run] = [op |-> "optimiser"]]
    /\ since' = [since EXCEPT ![run] = <<>>]
    /\ UNCHANGED <<saved, rng, steps, Others>>

\* one call of the function optimiser built, on batch b: the outputs are
\* computed from the values before the step, then every key of updates
\* takes its new value (line 205)
OptimiserStep(run, b) ==
    /\ built[run] # None
    /\ steps[run] < (IF run = 1 THEN MaxSteps ELSE MaxStepsResumed)
    /\ LET cfg == The(built[run])
           st == store[run]
           out == optimiser_outputs(BatchX(b),
                      log_p_x_of(st, run, b, MaxSamples), kl_of(st, run, b),
                      MaxSamples, cfg.optimal_ratio, Some(BatchBeta(b)))
           grads == constrain_grads(grads_of(st, run, b), cfg.grad_norm_constraint)
       IN  /\ store' = [store EXCEPT ![run] = update_rule(cfg.rule, st, grads) @@ st]
           /\ ret' = [ret EXCEPT ![run] = [op |-> "optimiser_step", out |-> out]]
    /\ steps' = [steps EXCEPT ![run] = @ + 1]
    /\ since' = [since EXCEPT ![run] = Append(@, b)]
    /\ UNCHANGED <<built, saved, rng, Others>>

\* the caller keeps the second result of optimiser, updates, with the values
\* its keys hold now (once)
SaveUpdates(run) ==
    /\ built[run] # None
    /\ saved = None
    /\ saved' = Some([by |-> run,
                      entries |-> [k \in DOMAIN The(built[run]).updates |->
                          [key |-> The(built[run]).updates[k],
                           val |-> store[run][The(built[run]).updates[k]]]]])
    /\ since' = [since EXCEPT ![run] = <<>>]
    /\ UNCHANGED <<store, built, ret, rng, steps, Others>>

\* embedder on an index vector x and the table
Embed(run, x) ==
    /\ ret' = [ret EXCEPT ![run] =
                 [op |-> "embedder", x |-> x,
                  out |-> embedder(x, SharedValue(store[run], run, "emb"))]]
    /\ UNCHANGED <<store, built, saved, rng, steps, since, Others>>

\* the parameter values a compiled function reads
ReadParams(st, run, keys) == [key \in keys |-> SharedValue(st, run, key)]

\* the store after a call of a function compiled with the optimiser's kind
\* of updates
elbo_fn_updates_step(st, run, b) ==
    update_rule("sgd", st, grads_of(st, run, b)) @@ st

\* the store after a call of the function elbo_fn compiles: theano.function
\* without updates (lines 160-164)
elbo_fn_updates(st, run, b) == st

\* the function built by elbo_fn, called on batch b
ElboFn(run, b) ==
    /\ LET st == store[run]
       IN  /\ ret' = [ret EXCEPT ![run] =
                 [op |-> "elbo_fn", read |-> ReadParams(st, run, ParamSet),
                  out |-> elbo_fn_outputs(BatchX(b),
                             log_p_x_of(st, run, b, MaxSamples),
                             kl_of(st, run, b), MaxSamples)]]
           /\ store' = [store EXCEPT ![run] = elbo_fn_updates(st, run, b)]
    /\ UNCHANGED <<built, saved, rng, steps, since, Others>>

\* The updates the generative model hands back with its sampled outputs
\* (generate_output_prior, generate_text): the state of its random stream.
generative_updates(draws) == draws + 1

\* a compiled inference function: it reads the parameters named in keys and
\* returns; with sampling, the random stream moves on
Inference(run, op, keys, sampling) ==
    /\ ret' = [ret EXCEPT ![run] =
                 [op |-> op, read |-> ReadParams(store[run], run, keys)]]
    /\ IF sampling
       THEN /\ rng[run] < MaxDraws
            /\ rng' = [rng EXCEPT ![run] = generative_updates(@)]
       ELSE UNCHANGED rng
    /\ UNCHANGED <<store, built, saved, steps, since, Others>>

\* lines 212-229
generate_output_prior_fn(run) ==
    Inference(run, "generate_output_prior_fn", {"gen", "emb"}, TRUE)

\* lines 231-273
generate_output_posterior_fn(run) ==
    Inference(run, "generate_output_posterior_fn", ParamSet, TRUE)

\* lines 275-294: the functions generate_canvas_prior_fn builds
generate_canvases_prior_fn(run) ==
    Inference(run, "generate_canvases_prior_fn", {"gen", "emb"}, FALSE)

\* lines 296-317
impute_missing_words_fn(run) ==
    Inference(run, "impute_missing_words_fn", ParamSet, FALSE)

\* lines 319-330
follow_latent_trajectory_fn(run) ==
    Inference(run, "follow_latent_trajectory_fn", {"gen", "emb"}, TRUE)

\* lines 332-347
find_best_matches_fn(run) ==
    Inference(run, "find_best_matches_fn", ParamSet, FALSE)

\* index vectors handed to embedder: an index around the table, then a PAD
LookupIds == (0 - (V + 2)) .. (V + 1)
IndexVectors == { <<k, PAD>> : k \in LookupIds }

\* one run: its optimiser (built without saved state), steps, lookups and
\* the compiled evaluation and inference functions, in any order
Next ==
    \/ \E gnc \in GradNormArgs, rule \in Rules, o \in BOOLEAN :
            Optimiser(1, gnc, rule, o, None)
    \/ \E b \in Batches : OptimiserStep(1, b)
    \/ \E x \in IndexVectors : Embed(1, x)
    \/ \E b \in Batches : ElboFn(1, b)
    \/ generate_output_prior_fn(1)
    \/ generate_output_posterior_fn(1)
    \/ generate_canvases_prior_fn(1)
    \/ impute_missing_words_fn(1)
    \/ follow_latent_trajectory_fn(1)
    \/ find_best_matches_fn(1)

Spec == InitTrainer /\ [][Next]_vars

\* two runs: run 1 builds its optimiser without saved state, steps, and
\* saves its update state; run 2 is the resumed run: it builds its optimiser
\* on the saved state, with run 1's settings and an update rule of its own
NextResume ==
    \/ \E gnc \in {None, Some(3)}, rule \in Rules, o \in BOOLEAN :
            Optimiser(1, gnc, rule, o, None)
    \/ \E run \in Runs, b \in Batches : OptimiserStep(run, b)
    \/ SaveUpdates(1)
    \/ \E rule \in Rules :
            /\ saved # None
            /\ Optimiser(2, The(built[1]).grad_norm_constraint, rule,
                         The(built[1]).optimal_ratio, saved)

SpecResume == InitTrainer /\ [][NextResume]_vars

\* ================================================================ claims
SetMin(S) == CHOOSE a \in S : \A b \in S : a <= b

\* ---- cut_off (SpecCut)
CutDone == cut.pc \in {"cut", "recut"}

\* C1, as claimed: for every eos_ind and every token matrix, a row holding
\* eos_ind first at column k comes out equal to the input up to column k
\* and PAD after it, and a row without eos_ind comes out unchanged.
C1_TruncatesAfterFirstEos ==
    CutDone =>
        \A r \in 1 .. NRows :
            LET row == cut.x[r]
                at == { l \in 1 .. MaxLen : row[l] = cut.eos_ind }
            IN  IF at = {} THEN cut.out[r] = row
                ELSE \A l \in 1 .. MaxLen :
                        cut.out[r][l] = IF l <= SetMin(at) THEN row[l] ELSE PAD

\* C2: in the output of cut_off a row that holds PAD at a column holds PAD
\* at every later column, and the output row is the one cut_off gives for
\* that row alone, whatever the other rows of the batch hold.
C2_AbsorbingPerRow ==
    CutDone =>
        \A r \in 1 .. NRows :
            /\ \A l \in 1 .. MaxLen : \A m \in l .. MaxLen :
                    cut.out[r][l] = PAD => cut.out[r][m] = PAD
            /\ cut.out[r] = cut_off(<<cut.x[r]>>, cut.eos_ind)[1]

\* a row that turns PAD where its input holds a token, beside a row that
\* is not cut anywhere and holds something else
C2_Witness ==
    /\ cut.pc = "cut"
    /\ \E r \in 1 .. NRows, q \in 1 .. NRows :
        /\ r # q
        /\ cut.x[r][MaxLen] # PAD
        /\ cut.out[r][MaxLen] = PAD
        /\ cut.out[r][1] # PAD
        /\ cut.x[q] # cut.x[r]
        /\ cut.out[q] = cut.x[q]

\* C10: cut_off applied to its own result gives that result again, for
\* every eos_ind, 0 included.
C10_Idempotent == cut.pc = "recut" => cut.out2 = cut.out

\* the second call has run on a result the first call had to change, with
\* eos_ind equal to the scan's initial state
C10_Witness == cut.pc = "recut" /\ cut.out # cut.x /\ cut.eos_ind = 0

\* ---- symbolic_elbo (SpecElbo)
\* the sum of the S x N log-likelihoods and of the N kl terms, as integers
SumLogP == T_sum(elb.log_p_x)
SumKl == T_sum(elb.kl)

\* C4: the elbo output is (1/S) sum(log_p_x) - 0.5 sum(kl) with
\* optimal_ratio, (1/S) sum(log_p_x) - sum(kl) without it and without beta,
\* (1/S) sum(log_p_x) - sum(beta kl) without it and with beta; for the
\* function of elbo_fn and for the one of optimiser.  Both sides are
\* multiplied by 2 S.
C4_ElboClosedForm ==
    elb.pc \in {"elbo_fn", "optimiser"} =>
        LET S == elb.num_samples
        IN  /\ elb.optimal_ratio =>
                elb.out.elbo = 2 * SumLogP - S * SumKl
            /\ (~elb.optimal_ratio /\ elb.beta = None) =>
                elb.out.elbo = 2 * SumLogP - 2 * S * SumKl
            /\ (~elb.optimal_ratio /\ elb.beta # None) =>
                elb.out.elbo = 2 * SumLogP - 2 * S * The(elb.beta) * SumKl
            /\ elb.pc = "elbo_fn" => (~elb.optimal_ratio /\ elb.beta = None)

\* the optimiser's function with optimal_ratio set, a beta that would give
\* another value, several samples and a kl that counts
C4_Witness ==
    /\ elb.pc = "optimiser"
    /\ elb.optimal_ratio
    /\ elb.beta = Some(2)
    /\ elb.num_samples > 1
    /\ SumKl > 0

\* ---- gradient clipping (SpecClip)
\* the sum of the squares of the reals of a tensor, exact: the entries that
\* share a factor c / sqrt(n2) are summed together
RealSqrSum(t) ==
    LET factors == { <<t[i].c, t[i].n2>> : i \in DOMAIN t }
    IN  T_sum([f \in factors |->
            (T_sum([i \in { j \in DOMAIN t : <<t[j].c, t[j].n2>> = f } |->
                        t[i].v * t[i].v]) * f[1] * f[1]) \div f[2]])

Restrict(t, D) == [i \in D |-> t[i]]

Slices(g) ==
    IF ndim(g) = 2
    THEN { { i \in DOMAIN g : i[2] = j } : j \in { i[2] : i \in DOMAIN g } }
    ELSE { { i \in DOMAIN g : i[1] = a } : a \in { i[1] : i \in DOMAIN g } }

ZeroRow == [j \in 1 .. E |-> 0]
TableRow(run, r) == [j \in 1 .. E |-> store[run]["emb"][<<r, j>>]]

\* C3: whatever steps the optimiser has taken, a lookup of indices in
\* -1 .. V-1 gives the zero vector for -1 and, for i >= 0, row i of the
\* table as the latest step left it.
C3_LookupReadsCurrentTable ==
    \A run \in Runs :
        (/\ ret[run].op = "embedder"
         /\ \A l \in DOMAIN ret[run].x : ret[run].x[l] \in PAD .. (V - 1))
        => /\ ret[run].out.ok
           /\ \A l \in DOMAIN ret[run].x :
                ret[run].out.rows[l] =
                    IF ret[run].x[l] = PAD THEN ZeroRow
                    ELSE TableRow(run, ret[run].x[l] + 1)

\* a lookup of a token and of -1 after a step that changed the token's row,
\* with a last table row that is not zero
C3_Witness ==
    /\ ret[1].op = "embedder"
    /\ ret[1].x[1] \in 0 .. (V - 1)
    /\ ret[1].x[2] = PAD
    /\ steps[1] >= 1
    /\ TableRow(1, ret[1].x[1] + 1) #
          [j \in 1 .. E |-> InitStore(1)["emb"][<<ret[1].x[1] + 1, j>>]]
    /\ TableRow(1, V) # ZeroRow

\* C5, as claimed: a lookup with an index below -1 or above V-1 fails.
C5_OutsideIsFatal ==
    \A run \in Runs :
        (/\ ret[run].op = "embedder"
         /\ \E l \in DOMAIN ret[run].x : ret[run].x[l] \notin PAD .. (V - 1))
        => ~ret[run].out.ok

\* C5, amended: a lookup fails exactly when an index lies outside
\* -(V+1) .. V.  Index V gives the appended zero row, and an index k in
\* -(V+1) .. -2 gives row V+1+k of the table (counted from 0).
C5_FatalOnlyBeyondAppendedRow ==
    \A run \in Runs :
        ret[run].op = "embedder" =>
            /\ ret[run].out.ok <=>
                 \A l \in DOMAIN ret[run].x :
                    ret[run].x[l] \in (0 - (V + 1)) .. V
            /\ ret[run].out.ok =>
                 \A l \in DOMAIN ret[run].x :
                    LET k == ret[run].x[l]
                    IN  /\ k = V => ret[run].out.rows[l] = ZeroRow
                        /\ k < PAD =>
                             ret[run].out.rows[l] = TableRow(run, V + 1 + k + 1)

\* a lookup of -2 that returned the last row of the table, not zero
C5_Witness ==
    /\ ret[1].op = "embedder"
    /\ ret[1].x[1] = 0 - 2
    /\ ret[1].out.ok
    /\ ret[1].out.rows[1] = TableRow(1, V)
    /\ ret[1].out.rows[1] # ZeroRow

\* ---- the compiled functions (Spec)
ReadOnlyOps ==
    {"elbo_fn", "generate_output_prior_fn", "generate_output_posterior_fn",
     "generate_canvases_prior_fn", "impute_missing_words_fn",
     "follow_latent_trajectory_fn", "find_best_matches_fn"}

ParamsOf(st) == [key \in ParamSet |-> st[key]]

C6_MismatchFailsLoudly ==
    \A run \in Runs :
        (built[run] # None /\ The(built[run]).saved_update # None)
        => The(The(built[run]).saved_update).keys = The(built[run]).updates

\* C9: run 1 takes k steps, saves, and takes step k+1 on a batch; run 2
\* builds its optimiser on the saved state, with the same update rule, and
\* takes one step on that batch: the two steps return the same outputs and
\* leave the same parameters and accumulators.
Resumed ==
    /\ built[1] # None
    /\ built[2] # None
    /\ The(built[2]).saved_update # None
    /\ The(built[2]).rule = The(built[1]).rule
    /\ since[1] = since[2]
    /\ Len(since[2]) >= 1

====
